---- MODULE Spec2Model ----
(***************************************************************************)
(* Mailing-list management backend (src/myenv/api.py, src/myenv/dal.py).   *)
(*                                                                         *)
(* The state is the five relational tables of dal.py, the primary-key      *)
(* sequences, the wall clock read by the token service, and the last       *)
(* HTTP response produced by the API layer.  One action per route handler  *)
(* of api.py (plus the two MailingDAO operations that no route exposes).   *)
(* held is the bearer token a client keeps between requests; calls,        *)
(* sessions and committed are the DAO coroutines in progress, the          *)
(* database sessions they hold open, and the order of their commits.       *)
(*                                                                         *)
(* Three specifications share the state: Spec serves whole requests one    *)
(* after the other, TokenSpec lets the clock run between the issue and     *)
(* the verification of a token, DaoSpec interleaves the steps of           *)
(* concurrent MailingListDAO calls.                                        *)
(*                                                                         *)
(* SQLAlchemy semantics the DAOs rely on:                                  *)
(*  - every get_*_by_id opens its own session and closes it on return, so  *)
(*    the row it returns is DETACHED;                                      *)
(*  - update_* assigns to that detached row and commits the (empty) outer  *)
(*    session: the assignment reaches the returned object only;            *)
(*  - delete_* passes the detached row to session.delete of the outer      *)
(*    session, which attaches it, walks the relationship cascades          *)
(*    ("all, delete-orphan") and deletes the row and its dependants.       *)
(***************************************************************************)
EXTENDS Integers, Sequences, FiniteSets, TLC

VARIABLES users, mailing_lists, subscribers, templates, mailings, seq, now, resp,
          held, calls, sessions, committed

vars == <<users, mailing_lists, subscribers, templates, mailings, seq, now, resp,
          held, calls, sessions, committed>>

tables == <<users, mailing_lists, subscribers, templates, mailings>>

----------------------------------------------------------------------------
(* Bound of the model: how many primary keys the sequences hand out in    *)
(* all (rows ever inserted, over the five tables).                         *)

MaxRows == 4

(* Program constants.                                                      *)

ACCESS_TOKEN_EXPIRE_MINUTES == 30

SECRET_KEY == "SECRET_KEY"

(* Input alphabets.                                                        *)

Registrations == {[username |-> "u1", email |-> "u1@x"], [username |-> "u2", email |-> "u2@x"]}

Usernames == {r.username : r \in Registrations}

Passwords == {"p1"}

ListNames == {"l1"}

TemplateNames == {"t1"}

Contents == {"c1"}

SubscriberEmails == {"s1@x", "s2@x"}

----------------------------------------------------------------------------
(* Optional[T]: None is the empty sequence, a value x is <<x>>.            *)

None == <<>>

Some(x) == <<x>>

IsNone(o) == o = <<>>

Truthy(s) == s # ""

Without(t, ids) == [i \in (DOMAIN t) \ ids |-> t[i]]

With(t, id, row) == [i \in (DOMAIN t) \cup {id} |-> IF i = id THEN row ELSE t[i]]

DB == [users |-> users, mailing_lists |-> mailing_lists, subscribers |-> subscribers,
       templates |-> templates, mailings |-> mailings, seq |-> seq]

IntegrityError == "IntegrityError"

Raised(db, e) == [db |-> db, raised |-> e, ret |-> None]

Returned(db, r) == [db |-> db, raised |-> "", ret |-> r]

----------------------------------------------------------------------------
(* Credential store (passlib bcrypt): a one-way digest of the plaintext.   *)

get_hashed_password(password) == "$2b$" \o password

verify_password(password, hashed_password) == hashed_password = get_hashed_password(password)

----------------------------------------------------------------------------
(* Relationship cascades declared on the ORM classes ("all, delete-orphan"):*)
(* session.delete(parent) loads each relationship collection and deletes   *)
(* the children with the parent, whatever the foreign key's ondelete says. *)

ListsOfUsers(db, uids) == {l \in DOMAIN db.mailing_lists : db.mailing_lists[l].user_id \in uids}

TemplatesOfUsers(db, uids) == {t \in DOMAIN db.templates : db.templates[t].user_id \in uids}

SubscribersOfLists(db, lids) ==
  {s \in DOMAIN db.subscribers : db.subscribers[s].mailing_list_id \in lids}

MailingsOfLists(db, lids) == {m \in DOMAIN db.mailings : db.mailings[m].mailing_list_id \in lids}

MailingsOfTemplates(db, tids) == {m \in DOMAIN db.mailings : db.mailings[m].template_id \in tids}

MailingsOfUsers(db, uids) == {m \in DOMAIN db.mailings : db.mailings[m].user_id \in uids}

\* variant: MailingList.subscribers without a delete cascade
cascade_mailing_lists_keeping_subscribers(db, lids) ==
  [db EXCEPT !.mailing_lists = Without(@, lids),
             !.mailings = Without(@, MailingsOfLists(db, lids))]

\* MailingList.subscribers, MailingList.mailings
cascade_mailing_lists(db, lids) ==
  [db EXCEPT !.mailing_lists = Without(@, lids),
             !.subscribers = Without(@, SubscribersOfLists(db, lids)),
             !.mailings = Without(@, MailingsOfLists(db, lids))]

\* variant: Template.mailings without a delete cascade
cascade_templates_keeping_mailings(db, tids) ==
  [db EXCEPT !.templates = Without(@, tids)]

\* Template.mailings
cascade_templates(db, tids) ==
  [db EXCEPT !.templates = Without(@, tids),
             !.mailings = Without(@, MailingsOfTemplates(db, tids))]

\* variant: User.templates without a delete cascade
cascade_users_keeping_templates(db, uids) ==
  LET d1 == cascade_mailing_lists(db, ListsOfUsers(db, uids))
  IN [d1 EXCEPT !.users = Without(@, uids),
                !.mailings = Without(@, MailingsOfUsers(db, uids))]

\* User.mailing_lists, User.templates, User.mailings
cascade_users(db, uids) ==
  LET d1 == cascade_mailing_lists(db, ListsOfUsers(db, uids))
      d2 == cascade_templates(d1, TemplatesOfUsers(db, uids))
  IN [d2 EXCEPT !.users = Without(@, uids),
                !.mailings = Without(@, MailingsOfUsers(db, uids))]

----------------------------------------------------------------------------
(* UserDAO                                                                 *)

UserRow(id, username, hashed_password, email, is_admin) ==
  [id |-> id, username |-> username, hashed_password |-> hashed_password,
   email |-> email, is_active |-> TRUE, is_admin |-> is_admin]

UserUniqueViolation(db, username, email) ==
  \E u \in DOMAIN db.users : db.users[u].username = username \/ db.users[u].email = email

dao_create_user(db, username, hashed_password, email, is_admin) ==
  IF UserUniqueViolation(db, username, email)
  THEN Raised(db, IntegrityError)
  ELSE LET id == db.seq.users
           new_user == UserRow(id, username, hashed_password, email, is_admin)
       IN Returned([db EXCEPT !.users = With(@, id, new_user), !.seq.users = id + 1],
                   Some(new_user))

get_user_by_username(db, username) ==
  IF \E u \in DOMAIN db.users : db.users[u].username = username
  THEN Some(db.users[CHOOSE u \in DOMAIN db.users : db.users[u].username = username])
  ELSE None

get_user_by_id(db, user_id) ==
  IF user_id \in DOMAIN db.users THEN Some(db.users[user_id]) ELSE None

\* is_admin is Optional[bool]: None, or Some(b)
user_assign(user, username, hashed_password, email, is_admin) ==
  [user EXCEPT !.username = IF Truthy(username) THEN username ELSE @,
               !.hashed_password = IF Truthy(hashed_password) THEN hashed_password ELSE @,
               !.email = IF Truthy(email) THEN email ELSE @,
               !.is_admin = IF ~IsNone(is_admin) THEN is_admin[1] ELSE @]

\* the row comes from get_user_by_id's own, closed session: session.commit()
\* of the outer session has nothing to flush
dao_update_user(db, user_id, username, hashed_password, email, is_admin) ==
  LET user == get_user_by_id(db, user_id)
  IN IF ~IsNone(user)
     THEN Returned(db, Some(user_assign(user[1], username, hashed_password, email, is_admin)))
     ELSE Returned(db, None)

get_all_users(db) == {db.users[u] : u \in DOMAIN db.users}

dao_delete_user(db, user_id) ==
  LET user == get_user_by_id(db, user_id)
  IN IF ~IsNone(user)
     THEN Returned(cascade_users(db, {user_id}), TRUE)
     ELSE Returned(db, FALSE)

----------------------------------------------------------------------------
(* MailingListDAO                                                          *)

dao_create_mailing_list(db, name, user_id) ==
  IF user_id \notin DOMAIN db.users
  THEN Raised(db, IntegrityError)
  ELSE LET id == db.seq.mailing_lists
           new_mailing_list == [id |-> id, name |-> name, user_id |-> user_id]
       IN Returned([db EXCEPT !.mailing_lists = With(@, id, new_mailing_list),
                              !.seq.mailing_lists = id + 1],
                   Some(new_mailing_list))

get_mailing_list_by_id(db, mailing_list_id) ==
  IF mailing_list_id \in DOMAIN db.mailing_lists
  THEN Some(db.mailing_lists[mailing_list_id]) ELSE None

get_mailing_lists_by_user_id(db, user_id) ==
  {db.mailing_lists[l] : l \in ListsOfUsers(db, {user_id})}

\* variant: the row is loaded in the session that commits
dao_update_mailing_list_same_session(db, mailing_list_id, name) ==
  LET mailing_list == get_mailing_list_by_id(db, mailing_list_id)
  IN IF ~IsNone(mailing_list) /\ Truthy(name)
     THEN Returned([db EXCEPT !.mailing_lists[mailing_list_id].name = name],
                   Some([mailing_list[1] EXCEPT !.name = name]))
     ELSE Returned(db, None)

dao_update_mailing_list(db, mailing_list_id, name) ==
  LET mailing_list == get_mailing_list_by_id(db, mailing_list_id)
  IN IF ~IsNone(mailing_list) /\ Truthy(name)
     THEN Returned(db, Some([mailing_list[1] EXCEPT !.name = name]))
     ELSE Returned(db, None)

dao_delete_mailing_list(db, mailing_list_id) ==
  LET mailing_list == get_mailing_list_by_id(db, mailing_list_id)
  IN IF ~IsNone(mailing_list)
     THEN Returned(cascade_mailing_lists(db, {mailing_list_id}), TRUE)
     ELSE Returned(db, FALSE)

----------------------------------------------------------------------------
(* SubscriberDAO                                                           *)

\* variant: the email column without unique=True
SubscriberUniqueNotChecked(db, email) == FALSE

SubscriberUniqueViolation(db, email) ==
  \E s \in DOMAIN db.subscribers : db.subscribers[s].email = email

dao_create_subscriber(db, email, mailing_list_id) ==
  IF SubscriberUniqueViolation(db, email) \/ mailing_list_id \notin DOMAIN db.mailing_lists
  THEN Raised(db, IntegrityError)
  ELSE LET id == db.seq.subscribers
           new_subscriber == [id |-> id, email |-> email, mailing_list_id |-> mailing_list_id]
       IN Returned([db EXCEPT !.subscribers = With(@, id, new_subscriber),
                              !.seq.subscribers = id + 1],
                   Some(new_subscriber))

get_subscribers_by_mailing_list_id(db, mailing_list_id) ==
  {db.subscribers[s] : s \in SubscribersOfLists(db, {mailing_list_id})}

get_subscriber_by_id(db, subscriber_id) ==
  IF subscriber_id \in DOMAIN db.subscribers THEN Some(db.subscribers[subscriber_id]) ELSE None

dao_delete_subscriber(db, subscriber_id) ==
  LET subscriber == get_subscriber_by_id(db, subscriber_id)
  IN IF ~IsNone(subscriber)
     THEN Returned([db EXCEPT !.subscribers = Without(@, {subscriber_id})], TRUE)
     ELSE Returned(db, FALSE)

----------------------------------------------------------------------------
(* TemplateDAO                                                             *)

dao_create_template(db, name, content, user_id) ==
  IF user_id \notin DOMAIN db.users
  THEN Raised(db, IntegrityError)
  ELSE LET id == db.seq.templates
           new_template == [id |-> id, name |-> name, content |-> content, user_id |-> user_id]
       IN Returned([db EXCEPT !.templates = With(@, id, new_template),
                              !.seq.templates = id + 1],
                   Some(new_template))

get_template_by_id(db, template_id) ==
  IF template_id \in DOMAIN db.templates THEN Some(db.templates[template_id]) ELSE None

get_templates_by_user_id(db, user_id) ==
  {db.templates[t] : t \in TemplatesOfUsers(db, {user_id})}

\* variant: content assigned whether supplied or not
template_assign_content_always(template, name, content) ==
  [template EXCEPT !.name = IF Truthy(name) THEN name ELSE @,
                   !.content = content]

template_assign(template, name, content) ==
  [template EXCEPT !.name = IF Truthy(name) THEN name ELSE @,
                   !.content = IF Truthy(content) THEN content ELSE @]

dao_update_template(db, template_id, name, content) ==
  LET template == get_template_by_id(db, template_id)
  IN IF ~IsNone(template)
     THEN Returned(db, Some(template_assign(template[1], name, content)))
     ELSE Returned(db, None)

dao_delete_template(db, template_id) ==
  LET template == get_template_by_id(db, template_id)
  IN IF ~IsNone(template)
     THEN Returned(cascade_templates(db, {template_id}), TRUE)
     ELSE Returned(db, FALSE)

----------------------------------------------------------------------------
(* MailingDAO                                                              *)

dao_create_mailing(db, mailing_list_id, template_id, scheduled_at, user_id) ==
  IF \/ mailing_list_id \notin DOMAIN db.mailing_lists
     \/ template_id \notin DOMAIN db.templates
     \/ user_id \notin DOMAIN db.users
  THEN Raised(db, IntegrityError)
  ELSE LET id == db.seq.mailings
           new_mailing == [id |-> id, mailing_list_id |-> mailing_list_id,
                           template_id |-> template_id, scheduled_at |-> scheduled_at,
                           sent_at |-> None, user_id |-> user_id]
       IN Returned([db EXCEPT !.mailings = With(@, id, new_mailing), !.seq.mailings = id + 1],
                   Some(new_mailing))

get_mailing_by_id(db, mailing_id) ==
  IF mailing_id \in DOMAIN db.mailings THEN Some(db.mailings[mailing_id]) ELSE None

dao_update_mailing(db, mailing_id, sent_at) ==
  LET mailing == get_mailing_by_id(db, mailing_id)
  IN IF ~IsNone(mailing)
     THEN Returned(db, Some([mailing[1] EXCEPT !.sent_at = Some(sent_at)]))
     ELSE Returned(db, None)

get_mailings_by_user_id(db, user_id) == {db.mailings[m] : m \in MailingsOfUsers(db, {user_id})}

get_all_mailings(db) == {db.mailings[m] : m \in DOMAIN db.mailings}

----------------------------------------------------------------------------
(* Token service.  A token is the key it was signed with and its claims;   *)
(* jwt.decode accepts it when the key is the server's and exp has not      *)
(* passed.                                                                 *)

create_access_token(data, t) ==
  [key |-> SECRET_KEY, user_id |-> data, exp |-> t + ACCESS_TOKEN_EXPIRE_MINUTES]

\* jose.jwt.decode: the payload, or the exception it raises
jwt_decode(token, key, t) ==
  IF token.key # key THEN [raised |-> "JWTError", ret |-> None]
  ELSE IF token.exp < t THEN [raised |-> "ExpiredSignatureError", ret |-> None]
  ELSE [raised |-> "", ret |-> Some([user_id |-> token.user_id, exp |-> token.exp])]

\* variant: the expiry claim is not looked at
verify_token_ignoring_exp(token, t) ==
  IF token.key = SECRET_KEY
  THEN Some([user_id |-> token.user_id, exp |-> token.exp])
  ELSE None

verify_token(token, t) ==
  LET decoded == jwt_decode(token, SECRET_KEY, t)
  IN IF decoded.raised # "" THEN None ELSE decoded.ret

----------------------------------------------------------------------------
(* Access control.                                                         *)

HTTPException(status_code, detail) == [status_code |-> status_code, detail |-> detail]

Denied(exc, user) == [exc |-> Some(exc), user |-> user]

Granted(user) == [exc |-> None, user |-> Some(user)]

get_current_user(db, t, token) ==
  LET payload == verify_token(token, t)
  IN IF IsNone(payload)
     THEN Denied(HTTPException(401, "Invalid token"), None)
     ELSE LET user_id == payload[1].user_id
          IN IF IsNone(user_id)
             THEN Denied(HTTPException(401, "Invalid token"), None)
             ELSE LET user == get_user_by_id(db, user_id[1])
                  IN IF IsNone(user)
                     THEN Denied(HTTPException(401, "Invalid user"), None)
                     ELSE Granted(user[1])

\* variant: the admin flag is not looked at
get_current_admin_unchecked(db, t, token) == get_current_user(db, t, token)

get_current_admin(db, t, token) ==
  LET current == get_current_user(db, t, token)
  IN IF ~IsNone(current.exc) THEN current
     ELSE IF ~current.user[1].is_admin
          THEN Denied(HTTPException(403, "You must be an admin"), current.user)
          ELSE current

CallerOf(auth) == IF IsNone(auth.user) THEN 0 ELSE auth.user[1].id

----------------------------------------------------------------------------
(* Responses.  caller is the authenticated user's id (0 when the request   *)
(* was not authenticated).                                                 *)

Reply(db, caller, status_code, detail, body) ==
  [db |-> db, caller |-> caller, status_code |-> status_code, detail |-> detail, body |-> body]

Abort(db, caller, exc) == Reply(db, caller, exc.status_code, exc.detail, None)

\* an exception that no handler catches: Starlette answers 500
ServerError(db, caller) == Reply(db, caller, 500, "Internal Server Error", None)

UserRead(u) == [id |-> u.id, username |-> u.username, email |-> u.email,
                is_active |-> u.is_active, is_admin |-> u.is_admin]

MailingListRead(l) == [id |-> l.id, name |-> l.name, user_id |-> l.user_id]

SubscriberRead(s) == [id |-> s.id, email |-> s.email, mailing_list_id |-> s.mailing_list_id]

TemplateRead(tp) == [id |-> tp.id, name |-> tp.name, content |-> tp.content, user_id |-> tp.user_id]

----------------------------------------------------------------------------
(* Route handlers: users                                                   *)

login_for_access_token(db, t, username, password) ==
  LET user == get_user_by_username(db, username)
  IN IF IsNone(user) \/ ~verify_password(password, user[1].hashed_password)
     THEN Abort(db, 0, HTTPException(401, "Invalid username or password"))
     ELSE Reply(db, 0, 200, "", Some(create_access_token(Some(user[1].id), t)))

\* variant: nobody registers as an admin
create_new_user_never_admin(db, username, password, email, is_admin) ==
  LET r == dao_create_user(db, username, get_hashed_password(password), email, FALSE)
  IN IF r.raised # "" THEN ServerError(db, 0)
     ELSE Reply(r.db, 0, 201, "", Some(UserRead(r.ret[1])))

create_new_user(db, username, password, email, is_admin) ==
  LET r == dao_create_user(db, username, get_hashed_password(password), email, is_admin)
  IN IF r.raised # "" THEN ServerError(db, 0)
     ELSE Reply(r.db, 0, 201, "", Some(UserRead(r.ret[1])))

read_current_user(db, t, token) ==
  LET auth == get_current_user(db, t, token)
  IN IF ~IsNone(auth.exc) THEN Abort(db, CallerOf(auth), auth.exc[1])
     ELSE Reply(db, auth.user[1].id, 200, "", Some(UserRead(auth.user[1])))

update_user(db, t, token, user_id, username, password, email, is_admin) ==
  LET auth == get_current_admin(db, t, token)
  IN IF ~IsNone(auth.exc)
     THEN Abort(db, CallerOf(auth), auth.exc[1])
     ELSE LET me == auth.user[1].id
              r == dao_update_user(db, user_id, username, get_hashed_password(password),
                                   email, Some(is_admin))
          IN IF IsNone(r.ret)
             THEN Abort(r.db, me, HTTPException(404, "User not found"))
             ELSE Reply(r.db, me, 200, "", Some(UserRead(r.ret[1])))

read_all_users(db, t, token) ==
  LET auth == get_current_admin(db, t, token)
  IN IF ~IsNone(auth.exc)
     THEN Abort(db, CallerOf(auth), auth.exc[1])
     ELSE Reply(db, auth.user[1].id, 200, "", {UserRead(u) : u \in get_all_users(db)})

delete_user(db, t, token, user_id) ==
  LET auth == get_current_admin(db, t, token)
  IN IF ~IsNone(auth.exc)
     THEN Abort(db, CallerOf(auth), auth.exc[1])
     ELSE LET me == auth.user[1].id
              r == dao_delete_user(db, user_id)
          IN IF ~r.ret
             THEN Abort(r.db, me, HTTPException(404, "User not found"))
             ELSE Reply(r.db, me, 204, "", None)

----------------------------------------------------------------------------
(* Route handlers: mailing lists                                           *)

\* variant: the owner is not taken from the token
create_new_mailing_list_for_first_user(db, t, token, name) ==
  LET auth == get_current_user(db, t, token)
  IN IF ~IsNone(auth.exc) THEN Abort(db, CallerOf(auth), auth.exc[1])
     ELSE LET me == auth.user[1].id
              r == dao_create_mailing_list(db, name, 1)
          IN IF r.raised # "" THEN ServerError(db, me)
             ELSE Reply(r.db, me, 201, "", Some(MailingListRead(r.ret[1])))

create_new_mailing_list(db, t, token, name) ==
  LET auth == get_current_user(db, t, token)
  IN IF ~IsNone(auth.exc) THEN Abort(db, CallerOf(auth), auth.exc[1])
     ELSE LET me == auth.user[1].id
              r == dao_create_mailing_list(db, name, me)
          IN IF r.raised # "" THEN ServerError(db, me)
             ELSE Reply(r.db, me, 201, "", Some(MailingListRead(r.ret[1])))

read_all_mailing_lists(db, t, token) ==
  LET auth == get_current_user(db, t, token)
  IN IF ~IsNone(auth.exc) THEN Abort(db, CallerOf(auth), auth.exc[1])
     ELSE LET me == auth.user[1].id
          IN Reply(db, me, 200, "", {MailingListRead(l) : l \in get_mailing_lists_by_user_id(db, me)})

\* variant: the owner is not compared with the caller
read_mailing_list_of_anyone(db, t, token, mailing_list_id) ==
  LET auth == get_current_user(db, t, token)
  IN IF ~IsNone(auth.exc) THEN Abort(db, CallerOf(auth), auth.exc[1])
     ELSE LET me == auth.user[1].id
              mailing_list == get_mailing_list_by_id(db, mailing_list_id)
          IN IF IsNone(mailing_list)
             THEN Abort(db, me, HTTPException(404, "Mailing list not found"))
             ELSE Reply(db, me, 200, "", Some(MailingListRead(mailing_list[1])))

read_mailing_list(db, t, token, mailing_list_id) ==
  LET auth == get_current_user(db, t, token)
  IN IF ~IsNone(auth.exc) THEN Abort(db, CallerOf(auth), auth.exc[1])
     ELSE LET me == auth.user[1].id
              mailing_list == get_mailing_list_by_id(db, mailing_list_id)
          IN IF IsNone(mailing_list) \/ mailing_list[1].user_id # me
             THEN Abort(db, me, HTTPException(404, "Mailing list not found"))
             ELSE Reply(db, me, 200, "", Some(MailingListRead(mailing_list[1])))

update_mailing_list(db, t, token, mailing_list_id, name) ==
  LET auth == get_current_user(db, t, token)
  IN IF ~IsNone(auth.exc) THEN Abort(db, CallerOf(auth), auth.exc[1])
     ELSE LET me == auth.user[1].id
              r == dao_update_mailing_list(db, mailing_list_id, name)
          IN IF IsNone(r.ret) \/ r.ret[1].user_id # me
             THEN Abort(r.db, me, HTTPException(404, "Mailing list not found"))
             ELSE Reply(r.db, me, 200, "", Some(MailingListRead(r.ret[1])))

delete_mailing_list(db, t, token, mailing_list_id) ==
  LET auth == get_current_user(db, t, token)
  IN IF ~IsNone(auth.exc) THEN Abort(db, CallerOf(auth), auth.exc[1])
     ELSE LET me == auth.user[1].id
              mailing_list == get_mailing_list_by_id(db, mailing_list_id)
          IN IF IsNone(mailing_list) \/ mailing_list[1].user_id # me
             THEN Abort(db, me, HTTPException(404, "Mailing list not found"))
             ELSE LET r == dao_delete_mailing_list(db, mailing_list_id)
                  IN IF ~r.ret
                     THEN Abort(r.db, me, HTTPException(404, "Mailing list not found"))
                     ELSE Reply(r.db, me, 204, "", None)

----------------------------------------------------------------------------
(* Route handlers: subscribers                                             *)

create_new_subscriber(db, t, token, email, mailing_list_id) ==
  LET auth == get_current_user(db, t, token)
  IN IF ~IsNone(auth.exc) THEN Abort(db, CallerOf(auth), auth.exc[1])
     ELSE LET me == auth.user[1].id
              mailing_list == get_mailing_list_by_id(db, mailing_list_id)
          IN IF IsNone(mailing_list) \/ mailing_list[1].user_id # me
             THEN Abort(db, me, HTTPException(404, "Mailing list not found"))
             ELSE LET r == dao_create_subscriber(db, email, mailing_list_id)
                  IN IF r.raised # "" THEN ServerError(db, me)
                     ELSE Reply(r.db, me, 201, "", Some(SubscriberRead(r.ret[1])))

read_all_subscribers(db, t, token, mailing_list_id) ==
  LET auth == get_current_user(db, t, token)
  IN IF ~IsNone(auth.exc) THEN Abort(db, CallerOf(auth), auth.exc[1])
     ELSE LET me == auth.user[1].id
              mailing_list == get_mailing_list_by_id(db, mailing_list_id)
          IN IF IsNone(mailing_list) \/ mailing_list[1].user_id # me
             THEN Abort(db, me, HTTPException(404, "Mailing list not found"))
             ELSE Reply(db, me, 200, "",
                        {SubscriberRead(s) : s \in get_subscribers_by_mailing_list_id(db, mailing_list_id)})

delete_subscriber(db, t, token, subscriber_id) ==
  LET auth == get_current_user(db, t, token)
  IN IF ~IsNone(auth.exc) THEN Abort(db, CallerOf(auth), auth.exc[1])
     ELSE LET me == auth.user[1].id
              subscriber == get_subscriber_by_id(db, subscriber_id)
          IN IF IsNone(subscriber)
             THEN Abort(db, me, HTTPException(404, "Subscriber not found"))
             ELSE LET mailing_list == get_mailing_list_by_id(db, subscriber[1].mailing_list_id)
                  IN IF IsNone(mailing_list) \/ mailing_list[1].user_id # me
                     THEN Abort(db, me, HTTPException(404, "Mailing list not found"))
                     ELSE LET r == dao_delete_subscriber(db, subscriber_id)
                          IN IF ~r.ret
                             THEN Abort(r.db, me, HTTPException(404, "Subscriber not found"))
                             ELSE Reply(r.db, me, 204, "", None)

----------------------------------------------------------------------------
(* Route handlers: templates                                               *)

create_new_template(db, t, token, name, content) ==
  LET auth == get_current_user(db, t, token)
  IN IF ~IsNone(auth.exc) THEN Abort(db, CallerOf(auth), auth.exc[1])
     ELSE LET me == auth.user[1].id
              r == dao_create_template(db, name, content, me)
          IN IF r.raised # "" THEN ServerError(db, me)
             ELSE Reply(r.db, me, 201, "", Some(TemplateRead(r.ret[1])))

read_all_templates(db, t, token) ==
  LET auth == get_current_user(db, t, token)
  IN IF ~IsNone(auth.exc) THEN Abort(db, CallerOf(auth), auth.exc[1])
     ELSE LET me == auth.user[1].id
          IN Reply(db, me, 200, "", {TemplateRead(tp) : tp \in get_templates_by_user_id(db, me)})

read_template(db, t, token, template_id) ==
  LET auth == get_current_user(db, t, token)
  IN IF ~IsNone(auth.exc) THEN Abort(db, CallerOf(auth), auth.exc[1])
     ELSE LET me == auth.user[1].id
              template == get_template_by_id(db, template_id)
          IN IF IsNone(template) \/ template[1].user_id # me
             THEN Abort(db, me, HTTPException(404, "Template not found"))
             ELSE Reply(db, me, 200, "", Some(TemplateRead(template[1])))

update_template(db, t, token, template_id, name, content) ==
  LET auth == get_current_user(db, t, token)
  IN IF ~IsNone(auth.exc) THEN Abort(db, CallerOf(auth), auth.exc[1])
     ELSE LET me == auth.user[1].id
              r == dao_update_template(db, template_id, name, content)
          IN IF IsNone(r.ret) \/ r.ret[1].user_id # me
             THEN Abort(r.db, me, HTTPException(404, "Template not found"))
             ELSE Reply(r.db, me, 200, "", Some(TemplateRead(r.ret[1])))

\* variant: the owner check of the other delete handlers
delete_template_like_the_others(db, t, token, template_id) ==
  LET auth == get_current_user(db, t, token)
  IN IF ~IsNone(auth.exc) THEN Abort(db, CallerOf(auth), auth.exc[1])
     ELSE LET me == auth.user[1].id
              template == get_template_by_id(db, template_id)
          IN IF IsNone(template) \/ template[1].user_id # me
             THEN Abort(db, me, HTTPException(404, "Template not found"))
             ELSE LET r == dao_delete_template(db, template_id)
                  IN IF ~r.ret
                     THEN Abort(r.db, me, HTTPException(404, "Template not found"))
                     ELSE Reply(r.db, me, 204, "", None)

delete_template(db, t, token, template_id) ==
  LET auth == get_current_user(db, t, token)
  IN IF ~IsNone(auth.exc) THEN Abort(db, CallerOf(auth), auth.exc[1])
     ELSE LET me == auth.user[1].id
              template == get_template_by_id(db, template_id)
          IN IF IsNone(template)
             THEN Abort(db, me, HTTPException(404, "Template not found"))
             ELSE IF template[1].user_id # me
                  THEN Abort(db, me, HTTPException(403, "You are not allowed to delete this template"))
                  ELSE LET r == dao_delete_template(db, template_id)
                       IN IF ~r.ret
                          THEN Abort(r.db, me, HTTPException(404, "Template not found"))
                          ELSE Reply(r.db, me, 204, "", None)

----------------------------------------------------------------------------
(* The state machine.                                                      *)

EmptyTable == [i \in {} |-> None]

\* no response in flight
NoResponse == [op |-> "", caller |-> 0, id |-> 0, status_code |-> 0, detail |-> "", body |-> None]

Init ==
  /\ users = EmptyTable
  /\ mailing_lists = EmptyTable
  /\ subscribers = EmptyTable
  /\ templates = EmptyTable
  /\ mailings = EmptyTable
  /\ seq = [users |-> 1, mailing_lists |-> 1, subscribers |-> 1, templates |-> 1, mailings |-> 1]
  /\ now = 0
  /\ resp = NoResponse
  /\ held = None
  /\ calls = EmptyTable
  /\ sessions = EmptyTable
  /\ committed = <<>>

\* bearer tokens a client can present at time t: one the server issued for
\* each user id, and one failing each step of verification
Signed(user_id, exp) == [key |-> SECRET_KEY, user_id |-> user_id, exp |-> exp]

Tokens(t) ==
  {create_access_token(Some(u), t) : u \in 1..(seq.users - 1)}
    \cup {[create_access_token(Some(1), t) EXCEPT !.key = "other key"],
          Signed(Some(1), t - 1),
          Signed(None, t)}

UpdateNames(names) == {"", "renamed"}

\* primary keys handed out so far, by the sequences sq
Issued(sq) == (sq.users - 1) + (sq.mailing_lists - 1) + (sq.subscribers - 1)
                + (sq.templates - 1) + (sq.mailings - 1)

\* the ids a request can address in table t: every key handed out, and the
\* next one, which names no row
Keys(t) == 1..seq[t]

\* the handler's result r becomes the new state and the response
Respond(op, id, r) ==
  /\ resp = NoResponse
  /\ Issued(r.db.seq) <= MaxRows
  /\ users' = r.db.users
  /\ mailing_lists' = r.db.mailing_lists
  /\ subscribers' = r.db.subscribers
  /\ templates' = r.db.templates
  /\ mailings' = r.db.mailings
  /\ seq' = r.db.seq
  /\ now' = now
  /\ resp' = [op |-> op, caller |-> r.caller, id |-> id, status_code |-> r.status_code,
              detail |-> r.detail, body |-> r.body]

Serve(op, id, r) ==
  /\ Respond(op, id, r)
  /\ UNCHANGED <<held, calls, sessions, committed>>

POST_token ==
  \E username \in Usernames, password \in Passwords \cup {"wrong"} :
    Serve("login_for_access_token", 0, login_for_access_token(DB, now, username, password))

POST_users ==
  \E user \in Registrations, password \in Passwords, is_admin \in BOOLEAN :
    Serve("create_new_user", 0,
          create_new_user(DB, user.username, password, user.email, is_admin))

GET_users_me ==
  \E token \in Tokens(now) : Serve("read_current_user", 0, read_current_user(DB, now, token))

PUT_users ==
  \E token \in Tokens(now), user_id \in Keys("users"), username \in UpdateNames(Usernames),
     password \in Passwords, email \in UpdateNames(Usernames), is_admin \in BOOLEAN :
    Serve("update_user", user_id,
          update_user(DB, now, token, user_id, username, password, email, is_admin))

GET_users ==
  \E token \in Tokens(now) : Serve("read_all_users", 0, read_all_users(DB, now, token))

DELETE_users ==
  \E token \in Tokens(now), user_id \in Keys("users") :
    Serve("delete_user", user_id, delete_user(DB, now, token, user_id))

POST_mailing_lists ==
  \E token \in Tokens(now), name \in ListNames :
    Serve("create_new_mailing_list", 0, create_new_mailing_list(DB, now, token, name))

GET_mailing_lists ==
  \E token \in Tokens(now) : Serve("read_all_mailing_lists", 0, read_all_mailing_lists(DB, now, token))

GET_mailing_list ==
  \E token \in Tokens(now), id \in Keys("mailing_lists") :
    Serve("read_mailing_list", id, read_mailing_list(DB, now, token, id))

PUT_mailing_list ==
  \E token \in Tokens(now), id \in Keys("mailing_lists"), name \in UpdateNames(ListNames) :
    Serve("update_mailing_list", id, update_mailing_list(DB, now, token, id, name))

DELETE_mailing_list ==
  \E token \in Tokens(now), id \in Keys("mailing_lists") :
    Serve("delete_mailing_list", id, delete_mailing_list(DB, now, token, id))

POST_subscribers ==
  \E token \in Tokens(now), email \in SubscriberEmails, id \in Keys("mailing_lists") :
    Serve("create_new_subscriber", id, create_new_subscriber(DB, now, token, email, id))

GET_subscribers ==
  \E token \in Tokens(now), id \in Keys("mailing_lists") :
    Serve("read_all_subscribers", id, read_all_subscribers(DB, now, token, id))

DELETE_subscriber ==
  \E token \in Tokens(now), id \in Keys("subscribers") :
    Serve("delete_subscriber", id, delete_subscriber(DB, now, token, id))

POST_templates ==
  \E token \in Tokens(now), name \in TemplateNames, content \in Contents :
    Serve("create_new_template", 0, create_new_template(DB, now, token, name, content))

GET_templates ==
  \E token \in Tokens(now) : Serve("read_all_templates", 0, read_all_templates(DB, now, token))

GET_template ==
  \E token \in Tokens(now), id \in Keys("templates") :
    Serve("read_template", id, read_template(DB, now, token, id))

PUT_template ==
  \E token \in Tokens(now), id \in Keys("templates"),
     name \in UpdateNames(TemplateNames), content \in UpdateNames(Contents) :
    Serve("update_template", id, update_template(DB, now, token, id, name, content))

DELETE_template ==
  \E token \in Tokens(now), id \in Keys("templates") :
    Serve("delete_template", id, delete_template(DB, now, token, id))

\* MailingDAO is called by no route: its operations are steps of their own
Call(op, id, r) ==
  Serve(op, id, Reply(r.db, 0, 0, r.raised, r.ret))

MailingDAO_create_mailing ==
  \E l \in Keys("mailing_lists"), tp \in Keys("templates"), u \in Keys("users") :
    Call("create_mailing", 0, dao_create_mailing(DB, l, tp, now, u))

MailingDAO_update_mailing ==
  \E id \in Keys("mailings") :
    Call("update_mailing", id, dao_update_mailing(DB, id, now))

\* the response leaves the server; the next request is then taken up
Deliver ==
  /\ resp # NoResponse
  /\ resp' = NoResponse
  /\ UNCHANGED <<users, mailing_lists, subscribers, templates, mailings, seq, now>>
  /\ UNCHANGED <<held, calls, sessions, committed>>

Next ==
  \/ Deliver
  \/ POST_token
  \/ POST_users
  \/ GET_users_me
  \/ PUT_users
  \/ GET_users
  \/ DELETE_users
  \/ POST_mailing_lists
  \/ GET_mailing_lists
  \/ GET_mailing_list
  \/ PUT_mailing_list
  \/ DELETE_mailing_list
  \/ POST_subscribers
  \/ GET_subscribers
  \/ DELETE_subscriber
  \/ POST_templates
  \/ GET_templates
  \/ GET_template
  \/ PUT_template
  \/ DELETE_template
  \/ MailingDAO_create_mailing
  \/ MailingDAO_update_mailing

Spec == Init /\ [][Next]_vars

----------------------------------------------------------------------------
(* The token service under a running clock (one tick is one minute).  A    *)
(* client registers, logs in and keeps the token it is given; the clock    *)
(* runs; verify_token is applied to the kept token and to a copy signed    *)
(* with another key.                                                       *)

MaxClock == 32

\* POST /token, the client keeping the token of a 200 together with the
\* user it logged in as and the time of the login
Login ==
  \E username \in Usernames, password \in Passwords \cup {"wrong"} :
    LET r == login_for_access_token(DB, now, username, password)
        user == get_user_by_username(DB, username)
    IN /\ Respond("login_for_access_token", 0, r)
       /\ held' = IF r.status_code = 200
                  THEN Some([token |-> r.body[1], user_id |-> user[1].id, at |-> now])
                  ELSE held
       /\ UNCHANGED <<calls, sessions, committed>>

\* datetime.utcnow() moves on
Tick ==
  /\ now < MaxClock
  /\ now' = now + 1
  /\ UNCHANGED <<users, mailing_lists, subscribers, templates, mailings, seq, resp>>
  /\ UNCHANGED <<held, calls, sessions, committed>>

\* the tokens the client can present: the one it holds, and that one
\* re-signed with a key that is not the server's
Presentable == {held[1].token, [held[1].token EXCEPT !.key = "other key"]}

Verify ==
  /\ resp = NoResponse
  /\ ~IsNone(held)
  /\ \E token \in Presentable :
       resp' = [op |-> "verify_token", caller |-> 0, id |-> 0, status_code |-> 0, detail |-> "",
                body |-> Some([token |-> token, at |-> now, payload |-> verify_token(token, now)])]
  /\ UNCHANGED <<users, mailing_lists, subscribers, templates, mailings, seq, now>>
  /\ UNCHANGED <<held, calls, sessions, committed>>

TokenNext ==
  \/ Deliver
  \/ POST_users
  \/ Login
  \/ Tick
  \/ Verify

TokenSpec == Init /\ [][TokenNext]_vars

----------------------------------------------------------------------------
(* MailingListDAO as coroutines.  A call runs from one suspending await    *)
(* to the next (execute, commit, refresh, the exit of an async with) and   *)
(* other calls run in between.  A session keeps what it has pending: the   *)
(* row added to it, the row of its identity map that was assigned to, the  *)
(* row handed to session.delete; commit flushes the pending work of that   *)
(* one session.  A row belongs to the session that loaded it (home) and    *)
(* is detached once that session is closed.                                *)

MaxCalls == 2

RenameNames == {"n1", "n2"}

\* sessionmaker(...)(): a session of call c with nothing pending
AsyncSession(c) == [call |-> c, new |-> None, dirty |-> None, deleted |-> None]

\* the names of the sessions call c opens: its own, and the one of the
\* get_mailing_list_by_id it calls
OuterSession(c) == 2 * c - 1

InnerSession(c) == 2 * c

\* async with await self.session_manager.get_async_session () as session
get_async_session(ss, s, c) == With(ss, s, AsyncSession(c))

\* the exit of the async with block
aexit(ss, s) == Without(ss, {s})

SessionsOf(c) == {s \in DOMAIN sessions : sessions[s].call = c}

Coroutine(op, id, name, user_id, pc, outer, inner) ==
  [op |-> op, id |-> id, name |-> name, user_id |-> user_id, pc |-> pc,
   outer |-> outer, inner |-> inner, row |-> None, home |-> 0, ret |-> None, raised |-> ""]

\* an attribute of a row is assigned: the session the row is attached to,
\* if it is still open, notes the row as dirty
setattr(ss, home, row) ==
  IF home \in DOMAIN ss THEN [ss EXCEPT ![home].dirty = Some(row)] ELSE ss

\* session.commit(): the session's pending work reaches the database
flush(db, session) ==
  IF ~IsNone(session.new)
  THEN dao_create_mailing_list(db, session.new[1].name, session.new[1].user_id)
  ELSE IF ~IsNone(session.dirty)
  THEN (IF session.dirty[1].id \in DOMAIN db.mailing_lists
        THEN Returned([db EXCEPT !.mailing_lists[session.dirty[1].id] = session.dirty[1]], None)
        ELSE Raised(db, "StaleDataError"))
  ELSE IF ~IsNone(session.deleted)
  THEN Returned(cascade_mailing_lists(db, {session.deleted[1]}), None)
  ELSE Returned(db, None)

Creating == {c \in DOMAIN calls : calls[c].op = "create_mailing_list" /\ calls[c].pc = "commit"}

DaoUnchangedDB == UNCHANGED <<users, mailing_lists, subscribers, templates, mailings, seq>>

\* create_mailing_list up to await session.commit ()
MailingListDAO_create_mailing_list(c) ==
  \E name \in ListNames, user_id \in Keys("users") :
    LET s == OuterSession(c)
    IN /\ c \notin DOMAIN calls
       /\ Issued(seq) + Cardinality(Creating) < MaxRows
       /\ sessions' = [get_async_session(sessions, s, c) EXCEPT
                         ![s].new = Some([name |-> name, user_id |-> user_id])]
       /\ calls' = With(calls, c, Coroutine("create_mailing_list", 0, name, user_id, "commit", s, 0))
       /\ DaoUnchangedDB
       /\ UNCHANGED <<now, resp, held, committed>>

\* get_mailing_list_by_id up to await session.execute (...)
MailingListDAO_get_mailing_list_by_id(c) ==
  \E id \in Keys("mailing_lists") :
    LET s == OuterSession(c)
    IN /\ c \notin DOMAIN calls
       /\ sessions' = get_async_session(sessions, s, c)
       /\ calls' = With(calls, c, Coroutine("get_mailing_list_by_id", id, "", 0, "execute", s, 0))
       /\ DaoUnchangedDB
       /\ UNCHANGED <<now, resp, held, committed>>

\* update_mailing_list / delete_mailing_list up to the await session.execute
\* (...) of the get_mailing_list_by_id they call: the outer session is open,
\* and so is the session of get_mailing_list_by_id
Nested(c, op, id, name) ==
  LET outer == OuterSession(c)
      opened == get_async_session(sessions, outer, c)
      inner == InnerSession(c)
  IN /\ c \notin DOMAIN calls
     /\ sessions' = get_async_session(opened, inner, c)
     /\ calls' = With(calls, c, Coroutine(op, id, name, 0, "execute", outer, inner))
     /\ DaoUnchangedDB
     /\ UNCHANGED <<now, resp, held, committed>>

MailingListDAO_update_mailing_list(c) ==
  \E id \in Keys("mailing_lists"), name \in RenameNames :
    Nested(c, "update_mailing_list", id, name)

MailingListDAO_delete_mailing_list(c) ==
  \E id \in Keys("mailing_lists") : Nested(c, "delete_mailing_list", id, "")

\* session.execute ( select ... ) answers: scalar_one_or_none ()
execute(c) ==
  LET call == calls[c]
      s == IF call.inner # 0 THEN call.inner ELSE call.outer
      row == get_mailing_list_by_id(DB, call.id)
  IN /\ call.pc = "execute"
     /\ calls' = [calls EXCEPT ![c].row = row, ![c].home = s,
                               ![c].ret = IF call.inner # 0 THEN None ELSE row,
                               ![c].pc = IF call.inner # 0 THEN "inner_exit" ELSE "outer_exit"]
     /\ DaoUnchangedDB
     /\ UNCHANGED <<now, resp, held, sessions, committed>>

\* get_mailing_list_by_id returns into update_ / delete_mailing_list, which
\* runs on to its await session.commit () or to its return
inner_exit(c) ==
  LET call == calls[c]
      closed == aexit(sessions, call.inner)
      renamed == Some([call.row[1] EXCEPT !.name = call.name])
  IN /\ call.pc = "inner_exit"
     /\ IF call.op = "update_mailing_list"
        THEN IF ~IsNone(call.row) /\ Truthy(call.name)
             THEN /\ sessions' = setattr(closed, call.home, renamed[1])
                  /\ calls' = [calls EXCEPT ![c].inner = 0, ![c].row = renamed, ![c].pc = "commit"]
             ELSE /\ sessions' = closed
                  /\ calls' = [calls EXCEPT ![c].inner = 0, ![c].ret = None, ![c].pc = "outer_exit"]
        ELSE IF ~IsNone(call.row)
             THEN /\ sessions' = [closed EXCEPT ![call.outer].deleted = Some(call.id)]
                  /\ calls' = [calls EXCEPT ![c].inner = 0, ![c].home = call.outer, ![c].pc = "commit"]
             ELSE /\ sessions' = closed
                  /\ calls' = [calls EXCEPT ![c].inner = 0, ![c].ret = Some(FALSE), ![c].pc = "outer_exit"]
     /\ DaoUnchangedDB
     /\ UNCHANGED <<now, resp, held, committed>>

\* await session.commit () of the outer session
commit(c) ==
  LET call == calls[c]
      f == flush(DB, sessions[call.outer])
  IN /\ call.pc = "commit"
     /\ users' = f.db.users
     /\ mailing_lists' = f.db.mailing_lists
     /\ subscribers' = f.db.subscribers
     /\ templates' = f.db.templates
     /\ mailings' = f.db.mailings
     /\ seq' = f.db.seq
     /\ sessions' = [sessions EXCEPT ![call.outer] = AsyncSession(c)]
     /\ committed' = IF f.raised = "" THEN Append(committed, c) ELSE committed
     /\ calls' = IF f.raised # ""
                 THEN [calls EXCEPT ![c].raised = f.raised, ![c].pc = "outer_exit"]
                 ELSE IF call.op = "create_mailing_list"
                 THEN [calls EXCEPT ![c].row = f.ret, ![c].home = call.outer, ![c].pc = "refresh"]
                 ELSE IF call.op = "update_mailing_list"
                 THEN [calls EXCEPT ![c].ret = call.row, ![c].pc = "outer_exit"]
                 ELSE [calls EXCEPT ![c].ret = Some(TRUE), ![c].pc = "outer_exit"]
     /\ UNCHANGED <<now, resp, held>>

\* await session.refresh ( new_mailing_list )
refresh(c) ==
  LET call == calls[c]
      row == get_mailing_list_by_id(DB, call.row[1].id)
  IN /\ call.pc = "refresh"
     /\ calls' = IF IsNone(row)
                 THEN [calls EXCEPT ![c].raised = "InvalidRequestError", ![c].pc = "outer_exit"]
                 ELSE [calls EXCEPT ![c].row = row, ![c].ret = row, ![c].pc = "outer_exit"]
     /\ DaoUnchangedDB
     /\ UNCHANGED <<now, resp, held, sessions, committed>>

\* the exit of the call's own async with: its session is closed, whether the
\* block returned or raised
outer_exit(c) ==
  /\ calls[c].pc = "outer_exit"
  /\ sessions' = aexit(sessions, calls[c].outer)
  /\ calls' = [calls EXCEPT ![c].pc = "done"]
  /\ DaoUnchangedDB
  /\ UNCHANGED <<now, resp, held, committed>>

\* the caller takes the result
return(c) ==
  /\ calls[c].pc = "done"
  /\ calls' = Without(calls, {c})
  /\ committed' = SelectSeq(committed, LAMBDA x : x # c)
  /\ DaoUnchangedDB
  /\ UNCHANGED <<now, resp, held, sessions>>

\* a database with one user who owns one mailing list (reached in Spec by
\* POST /users and POST /mailing_lists)
DaoInit ==
  /\ users = With(EmptyTable, 1, UserRow(1, "u1", get_hashed_password("p1"), "u1@x", FALSE))
  /\ mailing_lists = With(EmptyTable, 1, [id |-> 1, name |-> "l1", user_id |-> 1])
  /\ subscribers = EmptyTable
  /\ templates = EmptyTable
  /\ mailings = EmptyTable
  /\ seq = [users |-> 2, mailing_lists |-> 2, subscribers |-> 1, templates |-> 1, mailings |-> 1]
  /\ now = 0
  /\ resp = NoResponse
  /\ held = None
  /\ calls = EmptyTable
  /\ sessions = EmptyTable
  /\ committed = <<>>

DaoNext ==
  \E c \in 1..MaxCalls :
    \/ MailingListDAO_create_mailing_list(c)
    \/ MailingListDAO_get_mailing_list_by_id(c)
    \/ MailingListDAO_update_mailing_list(c)
    \/ MailingListDAO_delete_mailing_list(c)
    \/ (c \in DOMAIN calls /\ execute(c))
    \/ (c \in DOMAIN calls /\ inner_exit(c))
    \/ (c \in DOMAIN calls /\ commit(c))
    \/ (c \in DOMAIN calls /\ refresh(c))
    \/ (c \in DOMAIN calls /\ outer_exit(c))
    \/ (c \in DOMAIN calls /\ return(c))

DaoSpec == DaoInit /\ [][DaoNext]_vars

----------------------------------------------------------------------------
(* Properties.                                                             *)

Owned(table, id, caller) == id \in DOMAIN table /\ table[id].user_id = caller

NotOwned(table, id, caller) == id \in DOMAIN table /\ table[id].user_id # caller

Authenticated(r) == r.caller # 0

Outcome(r) == [status_code |-> r.status_code, detail |-> r.detail, body |-> r.body]

\* a token the server issued to the caller, still valid at time t
TokenOf(caller, t) == create_access_token(Some(caller), t)

(* C1: a request that is answered Unauthorized (401), Forbidden (403) or   *)
(* NotFound (404) leaves every persisted row as it was; this covers PUT    *)
(* /mailing_lists/{id} and PUT /templates/{id} by an authenticated user    *)
(* who does not own the addressed entity.                                  *)
C1_DeniedRequestsChangeNoRow ==
  [][resp'.status_code \in {401, 403, 404} => tables' = tables]_vars

\* a PUT /mailing_lists/{id} by a non-owner was answered NotFound
C1_Witness ==
  /\ resp.op = "update_mailing_list"
  /\ Authenticated(resp)
  /\ NotOwned(mailing_lists, resp.id, resp.caller)
  /\ resp.status_code = 404

(* C2: a MailingList of user A read, updated or deleted by another user B  *)
(* is answered NotFound, with the very reply an id that names no list      *)
(* gets; so is a Template of A read or updated by B; and so are the        *)
(* Subscribers of A's list created, listed or deleted by B, whose reply is *)
(* the one of a parent list that does not exist.  Nothing is changed.      *)
AbsentListReply(op, caller) ==
  LET token == TokenOf(caller, now)
      absent == seq.mailing_lists
  IN CASE op = "read_mailing_list" -> Outcome(read_mailing_list(DB, now, token, absent))
       [] op = "update_mailing_list" -> Outcome(update_mailing_list(DB, now, token, absent, "renamed"))
       [] op = "delete_mailing_list" -> Outcome(delete_mailing_list(DB, now, token, absent))
       [] op = "create_new_subscriber" ->
            Outcome(create_new_subscriber(DB, now, token, "s1@x", absent))
       [] op = "read_all_subscribers" -> Outcome(read_all_subscribers(DB, now, token, absent))
       [] op = "delete_subscriber" -> Outcome(read_all_subscribers(DB, now, token, absent))

AbsentTemplateReply(op, caller) ==
  LET token == TokenOf(caller, now)
      absent == seq.templates
  IN CASE op = "read_template" -> Outcome(read_template(DB, now, token, absent))
       [] op = "update_template" ->
            Outcome(update_template(DB, now, token, absent, "renamed", "renamed"))

C2_ForeignList(r) ==
  \/ /\ r.op \in {"read_mailing_list", "update_mailing_list", "delete_mailing_list",
                  "create_new_subscriber", "read_all_subscribers"}
     /\ NotOwned(mailing_lists, r.id, r.caller)
  \/ /\ r.op = "delete_subscriber"
     /\ r.id \in DOMAIN subscribers
     /\ NotOwned(mailing_lists, subscribers[r.id].mailing_list_id, r.caller)

C2_ForeignTemplate(r) ==
  /\ r.op \in {"read_template", "update_template"}
  /\ NotOwned(templates, r.id, r.caller)

C3_OneUnauthorizedResponse ==
  \A t1 \in Tokens(now), t2 \in Tokens(now) :
    LET r1 == read_current_user(DB, now, t1)
        r2 == read_current_user(DB, now, t2)
    IN (r1.status_code = 401 /\ r2.status_code = 401) => Outcome(r1) = Outcome(r2)

(* C4: listing all users, updating a user and deleting a user go through   *)
(* only for a caller whose stored is_admin flag is true when the request   *)
(* is served; an authenticated caller whose flag is false is answered      *)
(* Forbidden (403, not 401) and no row changes.                            *)
AdminOps == {"update_user", "read_all_users", "delete_user"}

IsAdmin(caller) == caller \in DOMAIN users /\ users[caller].is_admin

C4_AdminGate ==
  [][resp'.op \in AdminOps =>
       /\ resp'.status_code \notin {401, 403} => IsAdmin(resp'.caller)
       /\ users' # users => IsAdmin(resp'.caller)
       /\ (Authenticated(resp') /\ ~IsAdmin(resp'.caller)) =>
            /\ resp'.status_code = 403
            /\ tables' = tables]_vars

\* a user without the admin flag asked to delete an existing user
C4_Witness ==
  /\ resp.op = "delete_user"
  /\ Authenticated(resp)
  /\ ~IsAdmin(resp.caller)
  /\ resp.id \in DOMAIN users
  /\ resp.status_code = 403

(* C5: DELETE /templates/{id} by an authenticated user who does not own    *)
(* the existing template is answered Forbidden, and NotFound only when no  *)
(* such template exists; DELETE /mailing_lists/{id} by a non-owner of an   *)
(* existing list is answered NotFound; in both cases nothing is deleted.   *)
C5_DeleteAsymmetry ==
  [][Authenticated(resp') =>
       /\ resp'.op = "delete_template" =>
            /\ NotOwned(templates, resp'.id, resp'.caller) =>
                 resp'.status_code = 403 /\ tables' = tables
            /\ resp'.status_code = 404 <=> resp'.id \notin DOMAIN templates
       /\ (resp'.op = "delete_mailing_list" /\ NotOwned(mailing_lists, resp'.id, resp'.caller)) =>
            resp'.status_code = 404 /\ tables' = tables]_vars

\* a user asked to delete another user's template
C5_Witness ==
  /\ resp.op = "delete_template"
  /\ Authenticated(resp)
  /\ NotOwned(templates, resp.id, resp.caller)
  /\ resp.status_code = 403
(* C6: once delete_user(U) has returned true, no MailingList, Template or *)
(* Mailing with user_id = U exists: list_by_owner(U) is empty, in that     *)
(* state and in every later one, and get_by_id of each entity U owned      *)
(* returns nothing.                                                        *)
DeletedKeys(t, table) == (1..(seq[t] - 1)) \ DOMAIN table

C6_DeletedUserOwnsNothing ==
  /\ [](\A u \in DeletedKeys("users", users) :
          /\ get_mailing_lists_by_user_id(DB, u) = {}
          /\ get_templates_by_user_id(DB, u) = {}
          /\ get_mailings_by_user_id(DB, u) = {})
  /\ [][(resp'.op = "delete_user" /\ resp'.status_code = 204) =>
          /\ IsNone(get_user_by_id(DB', resp'.id))
          /\ \A l \in ListsOfUsers(DB, {resp'.id}) : IsNone(get_mailing_list_by_id(DB', l))
          /\ \A tp \in TemplatesOfUsers(DB, {resp'.id}) : IsNone(get_template_by_id(DB', tp))
          /\ \A m \in MailingsOfUsers(DB, {resp'.id}) : IsNone(get_mailing_by_id(DB', m))]_vars

\* the only user ever registered was deleted after a list, a template and a
\* mailing had been created
C6_Witness ==
  /\ resp.op = "delete_user"
  /\ resp.status_code = 204
  /\ seq.users = 2 /\ seq.mailing_lists = 2 /\ seq.templates = 2 /\ seq.mailings = 2
  /\ DOMAIN users = {} /\ DOMAIN mailing_lists = {} /\ DOMAIN templates = {}
  /\ DOMAIN mailings = {}

(* C7: once delete_mailing_list(L) has returned true, no Subscriber and no *)
(* Mailing with mailing_list_id = L exists.                                *)
C7_DeletedListLeavesNothing ==
  /\ [](\A l \in DeletedKeys("mailing_lists", mailing_lists) :
          /\ get_subscribers_by_mailing_list_id(DB, l) = {}
          /\ MailingsOfLists(DB, {l}) = {})
  /\ [][(resp'.op = "delete_mailing_list" /\ resp'.status_code = 204) =>
          /\ IsNone(get_mailing_list_by_id(DB', resp'.id))
          /\ \A sb \in SubscribersOfLists(DB, {resp'.id}) : IsNone(get_subscriber_by_id(DB', sb))
          /\ \A m \in MailingsOfLists(DB, {resp'.id}) : IsNone(get_mailing_by_id(DB', m))]_vars

\* the only list ever created was deleted after a subscriber had been added
C7_Witness ==
  /\ resp.op = "delete_mailing_list"
  /\ resp.status_code = 204
  /\ seq.mailing_lists = 2 /\ seq.subscribers = 2
  /\ DOMAIN mailing_lists = {} /\ DOMAIN subscribers = {}

(* C8 as claimed: after delete_mailing_list(L) or delete_template(T)       *)
(* succeeds, every Mailing that referenced L or T still exists.            *)
DeletedParent(r) ==
  r.op \in {"delete_mailing_list", "delete_template"} /\ r.status_code = 204

\* the Mailings that reference the list or template request r addresses
Referencing(r) ==
  IF r.op = "delete_mailing_list"
  THEN MailingsOfLists(DB, {r.id})
  ELSE MailingsOfTemplates(DB, {r.id})

C8_MailingsSurviveParent ==
  [][DeletedParent(resp') =>
       \A m \in Referencing(resp') : get_mailing_by_id(DB', m) = Some(mailings[m])]_vars

(* C8 as amended: the Mailings that referenced L (or T) are deleted with   *)
(* it, through the relationship cascade of the ORM; every other Mailing    *)
(* stays as it was.                                                        *)
C8_MailingsDeletedWithParent ==
  [][DeletedParent(resp') => mailings' = Without(mailings, Referencing(resp'))]_vars

\* the only template ever created was deleted after a mailing had used it
C8_Witness ==
  /\ resp.op = "delete_template"
  /\ resp.status_code = 204
  /\ seq.templates = 2 /\ seq.mailings = 2 /\ seq.mailing_lists = 2
  /\ DOMAIN templates = {} /\ DOMAIN mailings = {}
  /\ DOMAIN mailing_lists # {}

(* C9: no two Subscriber rows have the same email, whatever their lists;   *)
(* POST /subscribers with an email that some row already holds, in the     *)
(* same list or another one, fails with the database's uniqueness error    *)
(* (answered 500) and leaves the subscribers table as it was.              *)
EmailTaken(email) == \E sb \in DOMAIN subscribers : subscribers[sb].email = email

C9_SubscriberEmailUnique ==
  /\ [](\A s1 \in DOMAIN subscribers, s2 \in DOMAIN subscribers :
          subscribers[s1].email = subscribers[s2].email => s1 = s2)
  /\ [](\A l \in DOMAIN mailing_lists, email \in SubscriberEmails :
          EmailTaken(email) =>
            LET r == create_new_subscriber(DB, now, TokenOf(mailing_lists[l].user_id, now), email, l)
            IN r.status_code = 500 /\ r.db = DB)
  /\ [][resp'.op = "create_new_subscriber" =>
          IF resp'.status_code = 201
          THEN /\ ~EmailTaken(resp'.body[1].email)
               /\ subscribers' = With(subscribers, resp'.body[1].id, resp'.body[1])
          ELSE subscribers' = subscribers]_vars

\* an owner's POST /subscribers failed on an email held by the single
\* subscriber, which is in another list
C9_Witness ==
  /\ resp.op = "create_new_subscriber"
  /\ resp.status_code = 500
  /\ Owned(mailing_lists, resp.id, resp.caller)
  /\ Cardinality(DOMAIN subscribers) = 1
  /\ \A sb \in DOMAIN subscribers : subscribers[sb].mailing_list_id # resp.id

(* C10: the entity update_template returns has the supplied non-empty name *)
(* and content and keeps the stored value of an empty one; the entity      *)
(* update_user returns keeps the stored username when the supplied one is  *)
(* empty and takes the other non-empty fields; in no case does an empty    *)
(* value replace a stored one.                                             *)
Kept(supplied, stored) == IF supplied = "" THEN stored ELSE supplied

C10_PartialUpdate ==
  /\ \A id \in DOMAIN templates, name \in UpdateNames(TemplateNames),
        content \in UpdateNames(Contents) :
       LET r == dao_update_template(DB, id, name, content)
       IN /\ r.ret[1].name = Kept(name, templates[id].name)
          /\ r.ret[1].content = Kept(content, templates[id].content)
          /\ name = "" => r.db.templates[id].name = templates[id].name
          /\ content = "" => r.db.templates[id].content = templates[id].content
  /\ \A id \in DOMAIN users, username \in UpdateNames(Usernames),
        email \in UpdateNames(Usernames), is_admin \in BOOLEAN :
       LET r == dao_update_user(DB, id, username, get_hashed_password("p2"), email, Some(is_admin))
       IN /\ r.ret[1].username = Kept(username, users[id].username)
          /\ r.ret[1].email = Kept(email, users[id].email)
          /\ r.ret[1].hashed_password = get_hashed_password("p2")
          /\ r.ret[1].is_admin = is_admin
          /\ username = "" => r.db.users[id].username = users[id].username
          /\ email = "" => r.db.users[id].email = users[id].email

\* PUT /templates/{id} with a new name and an empty content was answered
\* with the new name and the stored content
C10_Witness ==
  /\ resp.op = "update_template"
  /\ resp.status_code = 200
  /\ resp.id \in DOMAIN templates
  /\ resp.body[1].name = "renamed"
  /\ templates[resp.id].name # "renamed"
  /\ resp.body[1].content = templates[resp.id].content

----------------------------------------------------------------------------
\* C11: a token issued for user U at time t carries user_id = U and the
\* expiry t + 30 minutes; verify_token before the expiry returns claims
\* whose user_id is U; after the expiry, or for a token signed with another
\* key, it returns no claims (and it always returns: None or the claims).
C11_TokenLifetime ==
  /\ ~IsNone(held) =>
       /\ held[1].token.user_id = Some(held[1].user_id)
       /\ held[1].token.exp = held[1].at + 30
  /\ resp.op = "verify_token" =>
       LET v == resp.body[1]
       IN /\ Len(v.payload) <= 1
          /\ (v.token = held[1].token /\ v.at < held[1].at + 30) =>
               (~IsNone(v.payload) /\ v.payload[1].user_id = Some(held[1].user_id))
          /\ (v.token = held[1].token /\ v.at > held[1].at + 30) => IsNone(v.payload)
          /\ v.token.key # SECRET_KEY => IsNone(v.payload)

\* the kept token was verified after its expiry
C11_Witness ==
  /\ resp.op = "verify_token"
  /\ resp.body[1].token = held[1].token
  /\ resp.body[1].at > held[1].at + 30
  /\ IsNone(resp.body[1].payload)

----------------------------------------------------------------------------
\* C12: every DAO call acquires exactly one session and releases it on
\* completion, on success and on failure alike: a call in progress holds
\* one open session and never more, the row it read belongs to the session
\* whose commit it issues, a completed call holds none, and no session is
\* open when no call is in progress.
C12_OneSessionPerCall ==
  /\ \A c \in DOMAIN calls :
       /\ Cardinality(SessionsOf(c)) = IF calls[c].pc = "done" THEN 0 ELSE 1
       /\ (calls[c].pc = "commit" /\ ~IsNone(calls[c].row)) => calls[c].home = calls[c].outer
  /\ calls = EmptyTable => sessions = EmptyTable

\* C13: two update_mailing_list calls on the same existing list with the
\* names n1 and n2 have interleaved and both completed: the stored name is
\* the name of the call that committed last, and both calls returned the
\* entity (neither was rejected).
C13_LastWriterWins ==
  \A c1 \in DOMAIN calls, c2 \in DOMAIN calls :
    (/\ c1 # c2
     /\ calls[c1].op = "update_mailing_list" /\ calls[c2].op = "update_mailing_list"
     /\ calls[c1].id = calls[c2].id
     /\ calls[c1].id \in DOMAIN mailing_lists
     /\ Truthy(calls[c1].name) /\ Truthy(calls[c2].name) /\ calls[c1].name # calls[c2].name
     /\ calls[c1].pc = "done" /\ calls[c2].pc = "done"
     /\ \E i \in DOMAIN committed, j \in DOMAIN committed :
          i < j /\ committed[i] = c1 /\ committed[j] = c2)
    => /\ mailing_lists[calls[c2].id].name = calls[c2].name
       /\ calls[c1].raised = "" /\ ~IsNone(calls[c1].ret)
       /\ calls[c2].raised = "" /\ ~IsNone(calls[c2].ret)

----------------------------------------------------------------------------
\* C14: an authenticated request on a MailingList is answered NotFound only
\* when the list is absent or is not owned by the caller; in particular a
\* PUT /mailing_lists/{id} by the owner of an existing list is never
\* answered NotFound, whatever name it supplies.
C14_NotFoundOnlyIfAbsentOrForeign ==
  [][(/\ Authenticated(resp')
      /\ resp'.op \in {"read_mailing_list", "update_mailing_list", "delete_mailing_list"}
      /\ resp'.status_code = 404)
     => ~Owned(mailing_lists, resp'.id, resp'.caller)]_vars

----------------------------------------------------------------------------
\* C15: a MailingList or Template created through the API gets the id of
\* the authenticated caller as its user_id, rows come into being in no
\* other way, and the user_id of a row never changes for as long as the
\* row exists, whatever request (an update by the owner, by another user
\* or by an admin) is served.
C15_Created(table, table_next, key, op) ==
  \A id \in (DOMAIN table_next) \ (DOMAIN table) :
    /\ id = key
    /\ resp'.op = op
    /\ resp'.status_code = 201
    /\ Authenticated(resp')
    /\ table_next[id].user_id = resp'.caller
    /\ resp'.body[1].user_id = resp'.caller

C15_Kept(table, table_next) ==
  \A id \in (DOMAIN table) \cap (DOMAIN table_next) :
    table_next[id].user_id = table[id].user_id

C15_OwnershipNeverTransfers ==
  [][/\ C15_Created(mailing_lists, mailing_lists', seq.mailing_lists, "create_new_mailing_list")
     /\ C15_Created(templates, templates', seq.templates, "create_new_template")
     /\ C15_Kept(mailing_lists, mailing_lists')
     /\ C15_Kept(templates, templates')
     /\ seq'.mailing_lists >= seq.mailing_lists
     /\ seq'.templates >= seq.templates
     /\ (resp'.op \in {"update_mailing_list", "update_template"} /\ resp'.status_code = 200)
          => resp'.body[1].user_id = resp'.caller]_vars

\* the second user owns a list, and a PUT on it by its owner was served
C15_Witness ==
  /\ resp.op = "update_mailing_list"
  /\ resp.status_code = 200
  /\ resp.caller = 2
  /\ Owned(mailing_lists, resp.id, 2)

----------------------------------------------------------------------------
\* C16: an update is committed to the store: once update_user,
\* update_mailing_list, update_template or update_mailing has returned an
\* entity, get_by_id for the same id returns the values of that entity.
C16_UpdateIsCommitted ==
  [][/\ (resp'.op = "update_user" /\ resp'.status_code = 200) =>
          /\ ~IsNone(get_user_by_id(DB', resp'.id))
          /\ UserRead(get_user_by_id(DB', resp'.id)[1]) = resp'.body[1]
     /\ (resp'.op = "update_mailing_list" /\ resp'.status_code = 200) =>
          /\ ~IsNone(get_mailing_list_by_id(DB', resp'.id))
          /\ MailingListRead(get_mailing_list_by_id(DB', resp'.id)[1]) = resp'.body[1]
     /\ (resp'.op = "update_template" /\ resp'.status_code = 200) =>
          /\ ~IsNone(get_template_by_id(DB', resp'.id))
          /\ TemplateRead(get_template_by_id(DB', resp'.id)[1]) = resp'.body[1]
     /\ (resp'.op = "update_mailing" /\ ~IsNone(resp'.body)) =>
          get_mailing_by_id(DB', resp'.id) = resp'.body]_vars

----------------------------------------------------------------------------
\* C17: POST /users takes no token and stores is_admin as the request body
\* supplies it (so the first user ever registered, if registered with
\* is_admin, passes the admin gate at once); a user row comes into being
\* through POST /users only; and the is_admin flag of an existing user
\* changes, if at all, only in an admin's PUT /users/{id} answered 200.
C17_RegistrationStoresFlag ==
  \A user \in Registrations, password \in Passwords, is_admin \in BOOLEAN :
    LET r == create_new_user(DB, user.username, password, user.email, is_admin)
    IN /\ r.status_code \in {201, 500}
       /\ r.status_code = 500 <=> UserUniqueViolation(DB, user.username, user.email)
       /\ r.status_code = 201 =>
            /\ r.db.users[seq.users].is_admin = is_admin
            /\ r.body[1].is_admin = is_admin
            /\ IsNone(get_current_admin(r.db, now, TokenOf(seq.users, now)).exc) <=> is_admin

C17_AdminByRegistration ==
  /\ [](resp = NoResponse => C17_RegistrationStoresFlag)
  /\ [][/\ \A u \in (DOMAIN users') \ (DOMAIN users) :
             /\ u = seq.users
             /\ resp'.op = "create_new_user"
             /\ resp'.status_code = 201
             /\ ~Authenticated(resp')
             /\ resp'.body[1].is_admin = users'[u].is_admin
        /\ \A u \in (DOMAIN users') \cap (DOMAIN users) :
             users'[u].is_admin # users[u].is_admin =>
               /\ resp'.op = "update_user"
               /\ resp'.status_code = 200
               /\ resp'.id = u
               /\ resp'.caller \in DOMAIN users
               /\ users[resp'.caller].is_admin]_vars

\* the only user ever registered has passed the admin gate of GET /users
C17_Witness ==
  /\ seq.users = 2
  /\ resp.op = "read_all_users"
  /\ resp.status_code = 200
  /\ resp.caller = 1
  /\ users[1].is_admin

====
